---- MODULE Spec2Model ----
(***************************************************************************)
(* Model of the portfolio backend in src/main.py: a FastAPI service that   *)
(* keeps a resume document and a chat log in MongoDB and proxies chat      *)
(* messages to the OpenRouter chat-completion API.                         *)
(*                                                                         *)
(* State: the two collections (resume, chats), the process environment     *)
(* (OPENROUTER_API_KEY), the phase of each service process (its            *)
(* module-level initialize_resume()), the chat requests suspended at       *)
(* `await client.post(...)`, and the last HTTP response the service        *)
(* produced.  The wall clock is an input: every datetime.utcnow() reads    *)
(* some value of it, and nothing makes two readings agree or increase.     *)
(* The database is an external collaborator: the service never deletes,    *)
(* but the resume collection may be emptied from outside, the case that    *)
(* `upsert=True` and the "No resume data found" answer are written for.    *)
(***************************************************************************)
EXTENDS Integers, Sequences, FiniteSets, TLC

VARIABLES resume, chats, env, phase, pending, lastWrite, last

vars == <<resume, chats, env, phase, pending, lastWrite, last>>

----------------------------------------------------------------------------
(* Bounds of the model *)

MaxChats == 2        \* documents the chats collection may hold
MaxClock == 1        \* the wall clock reads 0..MaxClock (in ticks)
UsecPerTick == 500000 \* microseconds in one clock tick
MaxLimit == 2        \* largest explicit ?limit= value tried
NumProcs == 2        \* service processes sharing the database (SpecConc)

----------------------------------------------------------------------------
(* Program constants *)

DefaultLimit == 10

PlaceholderKey == "your_openrouter_api_key_here"

SeededName == "Aditya Avinash Mane"

NoKey == "<unset>"

Idle == "<idle>"

----------------------------------------------------------------------------
(* Input domains *)

Procs == 1..NumProcs

\* Chat requests the process may have suspended at the same time.
Slots == {"r1", "r2"}

Messages == {"hi", "skills?"}

ApiKeys == {NoKey, "", PlaceholderKey, "sk-or-v1-key"}

ClockValues == 0..MaxClock

\* ?limit= as the client sends it: absent, or a non-negative integer.
Limits == { [given |-> FALSE, value |-> 0] }
          \cup { [given |-> TRUE, value |-> n] : n \in 0..MaxLimit }

\* resume_data of initialize_resume (only the fields the model reads).
SeedResume == [personal_info |-> [name |-> SeededName], about |-> "seed"]

\* Bodies tried with PUT /api/resume.
ResumeDocs == {SeedResume,
               [personal_info |-> [name |-> "Other Name"], about |-> "put"]}

----------------------------------------------------------------------------
(* JSON values of the upstream response *)

AiText == "I am a developer."

\* An error payload, and completions with and without the expected fields.
ErrorJson == [error |-> "rate limited"]

JsonBodies ==
    { ErrorJson,
      [choices |-> <<>>],
      [choices |-> << [index |-> 0] >>],
      [choices |-> << [message |-> [role |-> "assistant"]] >>],
      [choices |-> << [message |-> [content |-> AiText]] >>] }

\* response.text is "", text that is not JSON, or the text of a JSON value.
NoJson == [error |-> "-"]

Bodies == { [text |-> "empty", json |-> NoJson],
            [text |-> "nonjson", json |-> NoJson] }
          \cup { [text |-> "json", json |-> j] : j \in JsonBodies }

\* What `await client.post(...)` delivers: an httpx exception, a response
\* with status 200, or a response with another status.
Upstreams == { [kind |-> "transport_error", status_code |-> 0,
                body |-> [text |-> "empty", json |-> NoJson]] }
             \cup { [kind |-> "response", status_code |-> 200, body |-> b] :
                    b \in Bodies }
             \cup { [kind |-> "response", status_code |-> 429, body |-> b] :
                    b \in { c \in Bodies : c.text = "json" => c.json = ErrorJson } }

----------------------------------------------------------------------------
(* datetime.utcnow().isoformat() and the string order MongoDB sorts by *)

Min(a, b) == IF a <= b THEN a ELSE b

\* The decimal digits of n, zero-padded to `width`, as character codes.
Digits(n, width) == [i \in 1..width |-> 48 + ((n \div (10 ^ (width - i))) % 10)]

\* isoformat() of the clock reading t: "...:SS" when the microsecond field is
\* zero and "...:SS.ffffff" otherwise.  The date, hour and minute are the
\* same for every reading of the model and are left out of the text.
isoformat(t) ==
    LET total == t * UsecPerTick
        second == (total \div 1000000) % 60
        microsecond == total % 1000000
    IN  IF microsecond = 0
        THEN Digits(second, 2)
        ELSE Digits(second, 2) \o <<46>> \o Digits(microsecond, 6)

\* Binary string comparison: a < b.
RECURSIVE StrLess(_, _)
StrLess(a, b) ==
    IF b = <<>> THEN FALSE
    ELSE IF a = <<>> THEN TRUE
    ELSE IF Head(a) # Head(b) THEN Head(a) < Head(b)
    ELSE StrLess(Tail(a), Tail(b))

StrLeq(a, b) == a = b \/ StrLess(a, b)

----------------------------------------------------------------------------
(* The pymongo operations the handlers call.  A collection is the sequence *)
(* of its documents in insertion order; an ObjectId is modelled by the     *)
(* insertion index, unique among the documents the collection holds.       *)

count_documents(coll) == Len(coll)

\* Variant of insert_one that saves over the newest document when there is
\* one (a save keyed on a fixed filter instead of an insert).
insert_one_overwriting(coll, doc) ==
    IF coll = <<>>
    THEN Append(coll, [_id |-> 1] @@ doc)
    ELSE [coll EXCEPT ![Len(coll)] = [_id |-> Len(coll)] @@ doc]

\* insert_one: the document gets a fresh _id and is appended.
insert_one(coll, doc) == Append(coll, [_id |-> Len(coll) + 1] @@ doc)

\* Variant of replace_at that merges: fields the stored document already has
\* keep their values (an update that only adds missing fields).
replace_at_merging(coll, i, replacement) ==
    [coll EXCEPT ![i] = coll[i] @@ replacement]

\* replace_one({}, replacement) on the matched document i: the _id is kept,
\* every other field comes from the replacement.
replace_at(coll, i, replacement) ==
    [coll EXCEPT ![i] = [_id |-> coll[i]._id] @@ replacement]

\* The documents an unfiltered, unsorted find_one() / replace_one({}) may
\* pick: MongoDB promises no order without a sort.
Matches(coll) == DOMAIN coll

\* modified_count of the replace: 1 when a document was matched and changed.
modified_count(coll, i, replacement) ==
    IF coll[i] = [_id |-> coll[i]._id] @@ replacement THEN 0 ELSE 1

\* find().sort("timestamp", -1): every order of the documents in which the
\* timestamp strings never increase (equal timestamps may come either way).
sort_descending(coll) ==
    LET n == Len(coll)
        Perms == { f \in [1..n -> 1..n] : \A i, j \in 1..n : i # j => f[i] # f[j] }
    IN  { [i \in 1..n |-> coll[f[i]]] : f \in
            { g \in Perms : \A i, j \in 1..n :
                i < j => StrLeq(coll[g[j]].timestamp, coll[g[i]].timestamp) } }

\* cursor.limit(n), n >= 0: pymongo documents a limit of 0 as no limit.
limit(cursor, n) ==
    IF n = 0 THEN cursor ELSE SubSeq(cursor, 1, Min(n, Len(cursor)))

\* chat["_id"] = str(chat["_id"])
stringify_id(doc) == [doc EXCEPT !._id = ToString(doc._id)]

----------------------------------------------------------------------------
(* The chat handler's pure steps *)

NoPayload == [none |-> TRUE]

HTTPException(status_code, msg, payload) ==
    [exc |-> "HTTPException", status_code |-> status_code,
     detail |-> [msg |-> msg, payload |-> payload], value |-> ""]

\* Any other exception e; str(e) is its message.
Exception(msg) ==
    [exc |-> "Exception", status_code |-> 0,
     detail |-> [msg |-> msg, payload |-> NoPayload], value |-> ""]

Returned(value) ==
    [exc |-> "none", status_code |-> 200,
     detail |-> [msg |-> "", payload |-> NoPayload], value |-> value]

ConfigMsg == "OpenRouter API key not configured. Please add your API key to backend/.env file. Get a free key at https://openrouter.ai/"

AiServiceMsg == "AI service error: "

\* Variant of key_missing without the placeholder comparison.
key_missing_unless_placeholder(api_key) ==
    api_key = NoKey \/ api_key = ""

\* `not api_key or api_key == 'your_openrouter_api_key_here'`
key_missing(api_key) ==
    api_key = NoKey \/ api_key = "" \/ api_key = PlaceholderKey

\* response.json()["choices"][0]["message"]["content"]
extract_content(json) ==
    IF "choices" \notin DOMAIN json THEN Exception("'choices'")
    ELSE IF Len(json.choices) = 0 THEN Exception("list index out of range")
    ELSE IF "message" \notin DOMAIN json.choices[1] THEN Exception("'message'")
    ELSE IF "content" \notin DOMAIN json.choices[1].message THEN Exception("'content'")
    ELSE Returned(json.choices[1].message.content)

\* What the body of `async with` does with the outcome of client.post:
\* the exception it raises, or the ai_response it computes.
after_post(upstream) ==
    IF upstream.kind = "transport_error" THEN Exception("ConnectTimeout")
    ELSE IF upstream.status_code # 200
         THEN IF upstream.body.text = "empty"
              THEN HTTPException(500, "AI service error: AI service error", NoPayload)
              ELSE IF upstream.body.text # "json"
                   THEN Exception("Expecting value: line 1 column 1 (char 0)")
                   ELSE HTTPException(500, AiServiceMsg, upstream.body.json)
    ELSE IF upstream.body.text # "json"
         THEN Exception("Expecting value: line 1 column 1 (char 0)")
         ELSE extract_content(upstream.body.json)

\* ChatResponse(response=ai_response, timestamp=timestamp)
ChatResponse(ai_response, timestamp) ==
    [response |-> ai_response, timestamp |-> timestamp]

\* The handler's except clauses: an HTTPException is re-raised, any other
\* exception becomes HTTPException(500, str(e)).
except_clauses(outcome) ==
    IF outcome.exc = "Exception"
    THEN [outcome EXCEPT !.exc = "HTTPException", !.status_code = 500]
    ELSE outcome

\* Variant of chat_document with the two texts in each other's field.
chat_document_swapped(message, ai_response, timestamp) ==
    [user_message |-> ai_response, ai_response |-> message, timestamp |-> timestamp]

\* The document chat() inserts.
chat_document(message, ai_response, timestamp) ==
    [user_message |-> message, ai_response |-> ai_response, timestamp |-> timestamp]

\* Variant of record_exchange without the inner try/except: the storage
\* failure reaches the handler's except clauses.
record_exchange_unguarded(coll, message, ai_response, t1, t2, db_ok) ==
    IF db_ok
    THEN [exc |-> "none", status_code |-> 200,
          detail |-> [msg |-> "", payload |-> NoPayload],
          chats |-> insert_one(coll, chat_document(message, ai_response, isoformat(t1))),
          timestamp |-> isoformat(t1)]
    ELSE [exc |-> "Exception", status_code |-> 0,
          detail |-> [msg |-> "ServerSelectionTimeoutError", payload |-> NoPayload],
          chats |-> coll, timestamp |-> isoformat(t1)]

\* Lines 160-168: the insert into chats under its own try/except.  t1 is the
\* clock read before the insert, t2 the clock read in the except branch.
record_exchange(coll, message, ai_response, t1, t2, db_ok) ==
    IF db_ok
    THEN [exc |-> "none", status_code |-> 200,
          detail |-> [msg |-> "", payload |-> NoPayload],
          chats |-> insert_one(coll, chat_document(message, ai_response, isoformat(t1))),
          timestamp |-> isoformat(t1)]
    ELSE [exc |-> "none", status_code |-> 200,
          detail |-> [msg |-> "", payload |-> NoPayload],
          chats |-> coll, timestamp |-> isoformat(t2)]

\* Variant of needs_seed that seeds at every start.
needs_seed_always(coll) == count_documents(coll) >= 0

\* `if resume_collection.count_documents({}) == 0`
needs_seed(coll) == count_documents(coll) = 0

----------------------------------------------------------------------------
(* State *)

NoResponse ==
    [op |-> "none", req |-> [none |-> TRUE], status_code |-> 0, body |-> [none |-> TRUE]]

Response(op, req, status_code, body) ==
    [op |-> op, req |-> req, status_code |-> status_code, body |-> body]

\* A handler's `except Exception as e: raise HTTPException(500, str(e))`
\* around a failed store call.
StoreError(op, req) ==
    Response(op, req, 500, [detail |-> [msg |-> "ServerSelectionTimeoutError", payload |-> NoPayload]])

\* The latest write to the resume collection: its operation, the document
\* written and, for replace_one, whether the upsert inserted.
NoWrite == [op |-> "none", doc |-> SeedResume, upserted |-> FALSE]

Init ==
    /\ resume = <<>>
    /\ chats = <<>>
    /\ env \in ApiKeys
    /\ phase = [p \in Procs |-> "off"]
    /\ pending = [r \in Slots |-> Idle]
    /\ lastWrite = NoWrite
    /\ last = NoResponse

Awaiting == { r \in Slots : pending[r] # Idle }

----------------------------------------------------------------------------
(* Environment *)

\* The resume collection is emptied by a party other than the service.
resume_dropped ==
    /\ resume # <<>>
    /\ resume' = <<>>
    /\ lastWrite' = [op |-> "drop", doc |-> SeedResume, upserted |-> FALSE]
    /\ UNCHANGED <<chats, env, phase, pending, last>>

----------------------------------------------------------------------------
(* Process start: lines 10-76 *)

\* A process starts (or restarts, dropping the requests it was serving)
\* and initialize_resume() counts the resume collection.
Startup(p) ==
    /\ phase[p] \in {"off", "up"}
    /\ \E store_ok \in BOOLEAN :
         /\ phase' = [phase EXCEPT ![p] =
                        IF ~store_ok THEN "off"
                        ELSE IF needs_seed(resume) THEN "seeding" ELSE "up"]
         /\ last' = Response("startup", [proc |-> p],
                             IF store_ok THEN 200 ELSE 500, [none |-> TRUE])
    /\ pending' = [r \in Slots |-> Idle]
    /\ UNCHANGED <<resume, chats, env, lastWrite>>

\* initialize_resume(), line 74: the insert that follows a count of 0.
initialize_resume(p) ==
    /\ phase[p] = "seeding"
    /\ \E store_ok \in BOOLEAN :
         IF store_ok
         THEN /\ resume' = insert_one(resume, SeedResume)
              /\ phase' = [phase EXCEPT ![p] = "up"]
              /\ lastWrite' = [op |-> "insert_one", doc |-> SeedResume, upserted |-> FALSE]
              /\ last' = Response("initialize_resume", [proc |-> p], 200, [none |-> TRUE])
         ELSE /\ phase' = [phase EXCEPT ![p] = "off"]
              /\ last' = Response("initialize_resume", [proc |-> p], 500, [none |-> TRUE])
              /\ UNCHANGED <<resume, lastWrite>>
    /\ UNCHANGED <<chats, env, pending>>

----------------------------------------------------------------------------
(* Request handlers of a process that is up *)

\* GET /
read_root(p) ==
    /\ phase[p] = "up"
    /\ last' = Response("read_root", [proc |-> p], 200,
                        [status |-> "Portfolio API is running"])
    /\ UNCHANGED <<resume, chats, env, phase, pending, lastWrite>>

\* POST /api/chat up to `await client.post(...)`: lines 129-152.
chat_send(p, r, message) ==
    /\ phase[p] = "up"
    /\ pending[r] = Idle
    /\ Len(chats) + Cardinality(Awaiting) < MaxChats
    /\ LET req == [message |-> message, api_key |-> env]
       IN  IF key_missing(env)
           THEN /\ last' = Response("chat", req, 500,
                                    [detail |-> [msg |-> ConfigMsg, payload |-> NoPayload]])
                /\ UNCHANGED pending
           ELSE \E store_ok \in BOOLEAN :
                  IF store_ok
                  THEN /\ pending' = [pending EXCEPT ![r] = message]
                       /\ UNCHANGED last
                  ELSE \* get_resume_context(): find_one() raised
                       /\ last' = StoreError("chat", req)
                       /\ UNCHANGED pending
    /\ UNCHANGED <<resume, chats, env, phase, lastWrite>>

\* POST /api/chat from the outcome of client.post to the response:
\* lines 152-175.
chat_receive(p, r) ==
    /\ phase[p] = "up"
    /\ pending[r] # Idle
    /\ \E upstream \in Upstreams :
         LET req == [message |-> pending[r], api_key |-> env, upstream |-> upstream]
             got == after_post(upstream)
         IN  IF got.exc # "none"
             THEN /\ last' = Response("chat", req, except_clauses(got).status_code,
                                      [detail |-> except_clauses(got).detail])
                  /\ UNCHANGED chats
             ELSE \E t1 \in ClockValues, db_ok \in BOOLEAN :
                  \E t2 \in IF db_ok THEN {t1} ELSE ClockValues :
                    LET rec == record_exchange(chats, pending[r], got.value, t1, t2, db_ok)
                        out == except_clauses(rec)
                        now == [utcnow |-> <<t1, t2>>, db_ok |-> db_ok]
                    IN  /\ chats' = rec.chats
                        /\ last' = IF out.exc = "none"
                                   THEN Response("chat", req @@ now, 200,
                                                 ChatResponse(got.value, rec.timestamp))
                                   ELSE Response("chat", req @@ now, out.status_code,
                                                 [detail |-> out.detail])
    /\ pending' = [pending EXCEPT ![r] = Idle]
    /\ UNCHANGED <<resume, env, phase, lastWrite>>

\* GET /api/chat/history?limit=N
get_chat_history(p, lim) ==
    /\ phase[p] = "up"
    /\ LET n == IF lim.given THEN lim.value ELSE DefaultLimit
           req == [limit |-> lim]
       IN  \E store_ok \in BOOLEAN :
             IF store_ok
             THEN \E cursor \in sort_descending(chats) :
                    LET found == limit(cursor, n)
                    IN  last' = Response("get_chat_history", req, 200,
                                  [chats |-> [i \in DOMAIN found |-> stringify_id(found[i])]])
             ELSE last' = StoreError("get_chat_history", req)
    /\ UNCHANGED <<resume, chats, env, phase, pending, lastWrite>>

\* GET /api/resume
get_resume(p) ==
    /\ phase[p] = "up"
    /\ \E store_ok \in BOOLEAN :
         IF ~store_ok THEN last' = StoreError("get_resume", [proc |-> p])
         ELSE IF resume = <<>>
         THEN last' = Response("get_resume", [proc |-> p], 200,
                               [message |-> "No resume data found"])
         ELSE \E i \in Matches(resume) :
                last' = Response("get_resume", [proc |-> p], 200, stringify_id(resume[i]))
    /\ UNCHANGED <<resume, chats, env, phase, pending, lastWrite>>

\* PUT /api/resume: replace_one({}, resume_data, upsert=True)
update_resume(p, resume_data) ==
    /\ phase[p] = "up"
    /\ LET req == [proc |-> p, resume_data |-> resume_data]
       IN  \E store_ok \in BOOLEAN :
             IF ~store_ok
             THEN /\ last' = StoreError("update_resume", req)
                  /\ UNCHANGED <<resume, lastWrite>>
             ELSE /\ IF resume = <<>>
                     THEN /\ resume' = insert_one(resume, resume_data)
                          /\ last' = Response("update_resume", req, 200,
                                       [message |-> "Resume updated successfully", modified |-> 0])
                     ELSE \E i \in Matches(resume) :
                            /\ resume' = replace_at(resume, i, resume_data)
                            /\ last' = Response("update_resume", req, 200,
                                         [message |-> "Resume updated successfully",
                                          modified |-> modified_count(resume, i, resume_data)])
                  /\ lastWrite' = [op |-> "replace_one", doc |-> resume_data,
                                   upserted |-> resume = <<>>]
    /\ UNCHANGED <<chats, env, phase, pending>>

----------------------------------------------------------------------------
(* Specifications *)

\* One service process, as `python main.py` runs it.
Next ==
    \/ resume_dropped
    \/ Startup(1)
    \/ initialize_resume(1)
    \/ read_root(1)
    \/ \E r \in Slots, message \in Messages : chat_send(1, r, message)
    \/ \E r \in Slots : chat_receive(1, r)
    \/ \E lim \in Limits : get_chat_history(1, lim)
    \/ get_resume(1)
    \/ \E resume_data \in ResumeDocs : update_resume(1, resume_data)

Spec == Init /\ [][Next]_vars

\* Several service processes on one database: the resume collection under
\* their startups and their resume requests.
NextConc ==
    \E p \in Procs :
        \/ Startup(p)
        \/ initialize_resume(p)
        \/ get_resume(p)
        \/ \E resume_data \in ResumeDocs : update_resume(p, resume_data)

SpecConc == Init /\ [][NextConc]_vars

----------------------------------------------------------------------------
(* Vocabulary of the properties *)

IsChatResponse(resp) == resp.op = "chat"

\* The response of a chat request whose client.post returned.
AfterUpstream(resp) == IsChatResponse(resp) /\ "upstream" \in DOMAIN resp.req

\* The response of a chat request that reached the insert into chats.
ReachedInsert(resp) == IsChatResponse(resp) /\ "db_ok" \in DOMAIN resp.req

\* A step in which a suspended chat request gets its response.
ChatAnswered == \E r \in Slots : pending[r] # Idle /\ pending'[r] = Idle /\ last'.op = "chat"

\* The messages str(e) of the errors raised by subscripting a body that
\* lacks "choices", a first choice, "message" or "content".
RawAccessErrors == {"'choices'", "list index out of range", "'message'", "'content'"}

LacksStructure(json) ==
    \/ "choices" \notin DOMAIN json
    \/ Len(json.choices) = 0
    \/ "message" \notin DOMAIN json.choices[1]
    \/ "content" \notin DOMAIN json.choices[1].message

----------------------------------------------------------------------------
(* C1: a POST /api/chat handled while OPENROUTER_API_KEY is absent, empty   *)
(* or the placeholder answers 500 with the configuration message, issues   *)
(* no outbound call (no request becomes suspended at client.post) and      *)
(* writes nothing to the chat history.                                     *)
C1_Step ==
    env \in {NoKey, "", PlaceholderKey} =>
       /\ pending' = pending
       /\ chats' = chats
       /\ IsChatResponse(last') =>
            /\ last'.status_code = 500
            /\ last'.body.detail.msg = ConfigMsg

C1_MissingKeyFailsBeforeCall == [][C1_Step]_vars

C1_Witness ==
    /\ env = PlaceholderKey
    /\ IsChatResponse(last)
    /\ last.status_code = 500
    /\ last.req.message = "skills?"

(* C2: a POST /api/chat whose outbound call returned a status other than    *)
(* 200 (with a JSON body, a non-JSON body or no body) answers 500 with the *)
(* "AI service error" detail, carrying the upstream payload or, without a  *)
(* body, the generic message, and leaves the chat history unchanged.       *)
C2_Step ==
    ( /\ AfterUpstream(last')
      /\ last'.req.upstream.kind = "response"
      /\ last'.req.upstream.status_code # 200 ) =>
       /\ chats' = chats
       /\ last'.status_code = 500
       /\ IF last'.req.upstream.body.text = "empty"
          THEN last'.body.detail.msg = "AI service error: AI service error"
          ELSE /\ last'.body.detail.msg = AiServiceMsg
               /\ last'.req.upstream.body.text = "json" =>
                    last'.body.detail.payload = last'.req.upstream.body.json

C2_NonSuccessIsUpstreamError == [][C2_Step]_vars

\* With a JSON body or no body the answer to a non-200 status is as C2 states.
C2_ExceptNonJsonBody ==
    [][ (AfterUpstream(last') /\ last'.req.upstream.body.text # "nonjson") => C2_Step ]_vars

(* C3: when the outbound call succeeds with a well-formed completion and   *)
(* the insert into chats fails, the request still answers 200 with the AI  *)
(* text and the timestamp read after the failure, and the chat history is  *)
(* unchanged.                                                              *)
C3_Step ==
    ( ChatAnswered /\ ReachedInsert(last') /\ ~last'.req.db_ok ) =>
       /\ chats' = chats
       /\ last'.status_code = 200
       /\ last'.body.response = last'.req.upstream.body.json.choices[1].message.content
       /\ last'.body.timestamp = isoformat(last'.req.utcnow[2])

C3_StorageFailureSwallowed == [][C3_Step]_vars

C3_Witness ==
    /\ ReachedInsert(last)
    /\ ~last.req.db_ok
    /\ last.status_code = 200
    /\ last.req.utcnow[1] # last.req.utcnow[2]
    /\ Len(chats) = 1

(* C4: the resume collection never holds more than one document, whatever  *)
(* the interleaving of the processes' startups (count, then insert) and    *)
(* their PUT /api/resume requests.                                         *)
C4_AtMostOneResume == Len(resume) <= 1

(* C5: GET /api/chat/history?limit=N (N = 10 when absent) answers with at   *)
(* most N records: the N chats with the greatest timestamps (all of them   *)
(* when there are fewer than N), in descending timestamp order.            *)
C5_HistoryLimit ==
    ( last.op = "get_chat_history" /\ last.status_code = 200 ) =>
       LET N == IF last.req.limit.given THEN last.req.limit.value ELSE 10
           got == last.body.chats
           Returned_ids == { got[i]._id : i \in DOMAIN got }
       IN  /\ Len(got) <= N
           /\ Len(got) = Min(N, Len(chats))
           /\ \A i \in DOMAIN got :
                \E k \in DOMAIN chats : got[i] = stringify_id(chats[k])
           /\ \A i, j \in DOMAIN got :
                i < j => /\ got[i]._id # got[j]._id
                         /\ StrLeq(got[j].timestamp, got[i].timestamp)
           /\ \A k \in DOMAIN chats :
                ToString(chats[k]._id) \notin Returned_ids =>
                  \A i \in DOMAIN got : StrLeq(chats[k].timestamp, got[i].timestamp)

\* With a positive or absent limit the history response is as C5 states.
HistoryWithPositiveLimit ==
    ( /\ last.op = "get_chat_history"
      /\ last.req.limit.given => last.req.limit.value >= 1 ) => C5_HistoryLimit

(* C6: a successful PUT /api/resume with body D leaves exactly the document *)
(* D in the store: inserted when the store was empty, replacing the stored *)
(* document (whose _id is kept) otherwise, so a second identical PUT       *)
(* changes nothing; a GET /api/resume that follows with no other write in  *)
(* between returns D.  (While the latest write is the PUT's replace_one,   *)
(* the store has not been written since.)                                  *)
C6_PutStep ==
    ( /\ last'.op = "update_resume"
      /\ last'.status_code = 200
      /\ lastWrite'.op = "replace_one" ) =>
       /\ Len(resume') = 1
       /\ [f \in DOMAIN resume'[1] \ {"_id"} |-> resume'[1][f]] = last'.req.resume_data
       /\ resume # <<>> => resume'[1]._id = resume[1]._id

C6_GetAfterPut ==
    ( /\ last.op = "get_resume"
      /\ last.status_code = 200
      /\ lastWrite.op = "replace_one" ) =>
       last.body = [_id |-> ToString(resume[1]._id)] @@ lastWrite.doc

C6_PutThenGet == [][C6_PutStep]_vars /\ []C6_GetAfterPut

C6_Witness ==
    /\ last.op = "get_resume"
    /\ last.status_code = 200
    /\ lastWrite.op = "replace_one"
    /\ lastWrite.upserted
    /\ "personal_info" \in DOMAIN last.body
    /\ last.body.personal_info.name = "Other Name"

(* C7: a startup on an empty resume store ends with the seeded document as  *)
(* the only one, and GET /api/resume then returns the seeded name; a       *)
(* startup on a store that holds a document leaves the store as it is, so  *)
(* the store never holds a second document.  (A step after which the       *)
(* latest write is a drop is the environment's, not the startup's.)        *)
C7_Step ==
    /\ ( /\ last'.op = "startup"
         /\ last'.status_code = 200
         /\ resume # <<>>
         /\ lastWrite'.op # "drop" ) =>
          /\ resume' = resume
          /\ phase'[1] = "up"
    /\ ( /\ last'.op = "initialize_resume"
         /\ last'.status_code = 200
         /\ lastWrite'.op # "drop" ) =>
          resume' = << [_id |-> 1] @@ SeedResume >>

C7_Seeded ==
    /\ Len(resume) <= 1
    /\ ( /\ last.op = "get_resume"
         /\ last.status_code = 200
         /\ lastWrite.op = "insert_one" ) =>
          /\ "personal_info" \in DOMAIN last.body
          /\ last.body.personal_info.name = "Aditya Avinash Mane"

C7_StartupIdempotent == [][C7_Step]_vars /\ []C7_Seeded

C7_Witness ==
    /\ last.op = "startup"
    /\ last.status_code = 200
    /\ phase[1] = "up"
    /\ lastWrite.op = "insert_one"
    /\ Len(chats) = 1

(* C8: a POST /api/chat whose outbound call returned 200 with a JSON body   *)
(* that has no choices, no first choice or no message content answers with *)
(* a typed malformed-response error, not with the raw message of the       *)
(* failed subscript, and writes nothing to the chat history.               *)
C8_Step ==
    ( /\ AfterUpstream(last')
      /\ last'.req.upstream.kind = "response"
      /\ last'.req.upstream.status_code = 200
      /\ last'.req.upstream.body.text = "json"
      /\ LacksStructure(last'.req.upstream.body.json) ) =>
       /\ chats' = chats
       /\ last'.status_code = 500
       /\ last'.body.detail.msg \notin RawAccessErrors

C8_MalformedIsTyped == [][C8_Step]_vars

(* C9: a POST /api/chat that answers 200 after a successful insert appended *)
(* exactly one document to chats: the request's message, the response text *)
(* and the timestamp that the caller receives.                             *)
C9_Step ==
    \A r \in Slots :
       ( /\ pending[r] # Idle
         /\ pending'[r] = Idle
         /\ ReachedInsert(last')
         /\ last'.req.db_ok
         /\ last'.status_code = 200 ) =>
          chats' = Append(chats, [_id |-> Len(chats) + 1,
                                  user_message |-> pending[r],
                                  ai_response |-> last'.body.response,
                                  timestamp |-> last'.body.timestamp])

C9_ExchangeRecorded == [][C9_Step]_vars

C9_Witness ==
    /\ ReachedInsert(last)
    /\ last.req.db_ok
    /\ last.status_code = 200
    /\ Len(chats) = 2
    /\ chats[1].user_message # chats[2].user_message

(* C10: the chat history only grows at its end: every step keeps the        *)
(* documents it held, unchanged and in place; GET /, GET /api/chat/history,  *)
(* GET /api/resume and PUT /api/resume leave it as it is, and a step that  *)
(* changes it is a POST /api/chat appending one document.                  *)
C10_Step ==
    /\ Len(chats') >= Len(chats)
    /\ SubSeq(chats', 1, Len(chats)) = chats
    /\ last'.op \in {"read_root", "get_chat_history", "get_resume",
                     "update_resume", "startup", "initialize_resume"} =>
         chats' = chats
    /\ chats' # chats => /\ Len(chats') = Len(chats) + 1
                         /\ ChatAnswered

C10_AppendOnly == [][C10_Step]_vars

C10_Witness ==
    /\ Len(chats) = 2
    /\ last.op = "update_resume"
    /\ last.status_code = 200

====
